---- MODULE Spec2Model ----
(***************************************************************************)
(* A model of nltools/utils.py: the HRF generators, the estimator          *)
(* dispatchers set_algorithm / set_decomposition_algorithm,                *)
(* attempt_to_import, all_same and concatenate.                            *)
(*                                                                         *)
(* Python floats are modelled as fixed-point integers: the integer v       *)
(* stands for the real number v / FP.  Every float operation of the code   *)
(* is modelled by the corresponding fixed-point operation, which rounds    *)
(* (towards minus infinity) as a float operation rounds (to nearest); the  *)
(* gamma density is computed the way scipy computes it, as                 *)
(* exp(xlogy(a - 1, y) - y - gammaln(a)).                                  *)
(*                                                                         *)
(* np.linspace is given a float sample count (line 183).  The numpy the    *)
(* module was written against converts it with int(), truncating towards   *)
(* zero; that is the behaviour modelled here.                              *)
(***************************************************************************)
EXTENDS Integers, Sequences, FiniteSets, TLC

VARIABLES pc, call, ret, prev, module_names, imported

vars == <<pc, call, ret, prev, module_names, imported>>

(***************************************************************************)
(* Fixed-point arithmetic standing for the float arithmetic of the code.   *)
(***************************************************************************)
FP == 10000

Abs(x) == IF x < 0 THEN -x ELSE x

\* int(): truncation towards zero of the quotient a / b (b # 0).
TruncDiv(a, b) ==
    IF (a >= 0) = (b > 0) THEN Abs(a) \div Abs(b) ELSE -(Abs(a) \div Abs(b))

\* float * float
Mul(a, b) == (a \div FP) * b + ((a % FP) * b) \div FP

\* float / float, for b # 0 (the callers raise ZeroDivisionError otherwise)
Div(a, b) == IF b > 0 THEN (a * FP) \div b ELSE ((-a) * FP) \div (-b)

RECURSIVE Pow2(_)
Pow2(k) == IF k <= 0 THEN 1 ELSE 2 * Pow2(k - 1)

\* The number of halvings (positive) or doublings (negative) that bring y > 0
\* into [FP, 2 FP), i.e. the binary exponent of the float y.
RECURSIVE Exponent(_)
Exponent(y) ==
    IF y >= 2 * FP THEN 1 + Exponent(y \div 2)
    ELSE IF y < FP THEN Exponent(2 * y) - 1
    ELSE 0

Mantissa(y) ==
    LET k == Exponent(y)
    IN  IF k >= 0 THEN y \div Pow2(k) ELSE y * Pow2(-k)

\* log(y) for y > 0: k log 2 + 2 atanh((m - 1) / (m + 1)), m the mantissa.
Ln(y) ==
    LET k  == Exponent(y)
        m  == Mantissa(y)
        t  == ((m - FP) * FP) \div (m + FP)
        t2 == Mul(t, t)
        t3 == Mul(t2, t)
        t5 == Mul(t3, t2)
        t7 == Mul(t5, t2)
    IN  k * 6931 + 2 * (t + t3 \div 3 + t5 \div 5 + t7 \div 7)

\* exp(z): 2^k exp(r) with z = k log 2 + r, 0 <= r < log 2; underflows to 0.
Exp(z) ==
    LET k  == z \div 6931
        r  == z - k * 6931
        r2 == Mul(r, r)
        r3 == Mul(r2, r)
        r4 == Mul(r3, r)
        r5 == Mul(r4, r)
        e  == FP + r + r2 \div 2 + r3 \div 6 + r4 \div 24 + r5 \div 120
    IN  IF k < -30 THEN 0
        ELSE IF k < 0 THEN e \div Pow2(-k)
        ELSE e * Pow2(k)

\* Stirling's series for log Gamma(x), used for x >= 8.
Stirling(x) ==
    Mul(x - FP \div 2, Ln(x)) - x + 9189 + (FP * FP) \div (12 * x)

\* scipy.special.gammaln(a) for a > 0: the recurrence
\* Gamma(a) = Gamma(a + 1) / a up to an argument where Stirling is accurate.
RECURSIVE gammaln(_)
gammaln(a) ==
    IF a >= 8 * FP THEN Stirling(a) ELSE gammaln(a + FP) - Ln(a)

\* gamma.pdf as it would be if an invalid shape gave a density of 0 instead
\* of nan.
gamma_pdf_zero_for_invalid_shape(x, a, loc) ==
    LET y == x - loc
    IN  IF a <= FP \/ y <= 0 THEN [nan |-> FALSE, v |-> 0]
        ELSE [nan |-> FALSE,
              v   |-> Exp(Mul(a - FP, Ln(y)) - y - gammaln(a))]

\* scipy.stats.gamma.pdf(x, a, loc) over one sample x (scale is 1): a record
\* [nan, v].  An invalid shape a <= 0 gives nan and raises nothing; outside
\* the support (x < loc) the density is 0.
gamma_pdf(x, a, loc) ==
    LET y == x - loc
    IN  IF a <= 0 THEN [nan |-> TRUE, v |-> 0]
        ELSE IF y < 0 THEN [nan |-> FALSE, v |-> 0]
        ELSE IF y = 0
             THEN IF a > FP THEN [nan |-> FALSE, v |-> 0]
                  ELSE IF a = FP THEN [nan |-> FALSE, v |-> FP]
                  ELSE [nan |-> TRUE, v |-> 0]
        ELSE [nan |-> FALSE,
              v   |-> Exp(Mul(a - FP, Ln(y)) - y - gammaln(a))]

(***************************************************************************)
(* The HRF generators.  A call's outcome is a record                       *)
(*   [exc, hrf, finite]:                                                   *)
(* exc is "none" or the exception that propagates to the caller; hrf is    *)
(* the returned array; finite is FALSE when the samples of the returned    *)
(* array are nan or inf (hrf then only carries the array's length).        *)
(***************************************************************************)
Raise(e) == [exc |-> e, hrf |-> <<>>, finite |-> TRUE]

Return(h, f) == [exc |-> "none", hrf |-> h, finite |-> f]

RECURSIVE SeqSum(_)
SeqSum(s) == IF s = <<>> THEN 0 ELSE Head(s) + SeqSum(Tail(s))

\* np.linspace(0, stop, num): num evenly spaced samples, the last one stop.
linspace(stop, num) ==
    IF num = 1 THEN <<0>>
    ELSE LET step == stop \div (num - 1)
         IN  [i \in 1..num |-> IF i = num THEN stop ELSE (i - 1) * step]

\* The sample count as it would be if the quotient were rounded to the
\* nearest integer.
GridLenRounded(time_length, dt) ==
    IF dt > 0 THEN (2 * time_length + dt) \div (2 * dt)
    ELSE TruncDiv(time_length, dt)

\* Line 183's sample count: int(float(time_length) / dt).
GridLen(time_length, dt) == TruncDiv(time_length, dt)

\* The last step as it would be without the division by the sum.
NormalizeWithoutDivision(h, nan) ==
    IF h = <<>> THEN Return(<<>>, TRUE)
    ELSE IF nan \/ SeqSum(h) = 0 THEN Return([i \in 1..Len(h) |-> 0], FALSE)
    ELSE Return(h, TRUE)

\* Line 188, hrf /= hrf.sum(): a zero sum leaves nan (0/0) or inf in every
\* sample of a non-empty array.
Normalize(h, nan) ==
    LET total == SeqSum(h)
    IN  IF h = <<>> THEN Return(<<>>, TRUE)
        ELSE IF nan \/ total = 0
             THEN Return([i \in 1..Len(h) |-> 0], FALSE)
        ELSE Return([i \in 1..Len(h) |-> Div(h[i], total)], TRUE)

gamma_difference_hrf(tr, oversampling, time_length, onset, delay, undershoot, dispersion, u_dispersion, ratio) ==
    IF oversampling = 0 THEN Raise("ZeroDivisionError")
    ELSE LET dt == Div(tr, oversampling * FP)
    IN  IF dt = 0 THEN Raise("ZeroDivisionError")
        ELSE LET num == GridLen(time_length, dt)
    IN  IF num < 0 THEN Raise("ValueError")
        ELSE IF dispersion = 0 \/ u_dispersion = 0
             THEN Raise("ZeroDivisionError")
        ELSE LET shift == Div(onset, dt)
                 stamps == [i \in 1..num |-> linspace(time_length, num)[i] - shift]
                 p1 == [i \in 1..num |->
                          gamma_pdf(stamps[i], Div(delay, dispersion),
                                    Div(dt, dispersion))]
                 p2 == [i \in 1..num |->
                          gamma_pdf(stamps[i], Div(undershoot, u_dispersion),
                                    Div(dt, u_dispersion))]
                 h  == [i \in 1..num |-> p1[i].v - Mul(ratio, p2[i].v)]
                 nan == \E i \in 1..num : p1[i].nan \/ p2[i].nan
    IN  Normalize(h, nan)

\* spm_hrf as it would be if the grid covered [onset, time_length] only.
spm_hrf_grid_from_onset(tr, oversampling, time_length, onset) ==
    gamma_difference_hrf(tr, oversampling, time_length - onset, onset,
                         6 * FP, 16 * FP, FP, FP, 1670)

\* spm_hrf as it would be if it took a default from module-level state:
\* the oversampling grows with the number of entries of module_names.
spm_hrf_reading_module_names(tr, oversampling, time_length, onset) ==
    gamma_difference_hrf(tr, oversampling + Cardinality(module_names),
                         time_length, onset, 6 * FP, 16 * FP, FP, FP, 1670)

spm_hrf(tr, oversampling, time_length, onset) ==
    gamma_difference_hrf(tr, oversampling, time_length, onset,
                         6 * FP, 16 * FP, FP, FP, 1670)

glover_hrf(tr, oversampling, time_length, onset) ==
    gamma_difference_hrf(tr, oversampling, time_length, onset,
                         6 * FP, 12 * FP, 9000, 9000, 3500)

\* scale * (a - b) over two numpy arrays: an exception of either operand
\* propagates (a is evaluated first); arrays of different lengths broadcast
\* only when one of them has a single sample.
Difference(a, b, scale) ==
    IF a.exc # "none" THEN Raise(a.exc)
    ELSE IF b.exc # "none" THEN Raise(b.exc)
    ELSE LET la == Len(a.hrf)
             lb == Len(b.hrf)
             n  == IF la = 1 THEN lb ELSE la
         IN  IF la # lb /\ la # 1 /\ lb # 1 THEN Raise("ValueError")
             ELSE IF ~(a.finite /\ b.finite)
                  THEN Return([i \in 1..n |-> 0], n = 0)
             ELSE Return([i \in 1..n |->
                            scale * (a.hrf[IF la = 1 THEN 1 ELSE i]
                                     - b.hrf[IF lb = 1 THEN 1 ELSE i])], TRUE)

spm_time_derivative(tr, oversampling, time_length, onset) ==
    Difference(spm_hrf(tr, oversampling, time_length, onset + FP \div 10),
               spm_hrf(tr, oversampling, time_length, onset), 10)

glover_time_derivative(tr, oversampling, time_length, onset) ==
    Difference(glover_hrf(tr, oversampling, time_length, onset + FP \div 10),
               glover_hrf(tr, oversampling, time_length, onset), 10)

spm_dispersion_derivative(tr, oversampling, time_length, onset) ==
    Difference(gamma_difference_hrf(tr, oversampling, time_length, onset,
                                    6 * FP, 16 * FP, FP + FP \div 100, FP, 1670),
               spm_hrf(tr, oversampling, time_length, onset), 100)

(***************************************************************************)
(* Estimator dispatch.  An argument is [kind, v]: a string, or an          *)
(* (uninitialized) estimator class, the two kinds the docstrings allow.    *)
(* sys.modules is the variable imported.  An outcome is                    *)
(* [exc, value, imported]: the exception or the returned value, and        *)
(* sys.modules after the call.                                             *)
(***************************************************************************)
Str(v) == [kind |-> "str", v |-> v]

\* The estimator classes the scikit-learn modules export, as far as the
\* import strings of the dispatch tables go: sklearn.ensemble exports
\* RandomForestClassifier and RandomForestRegressor, and no RandomForest.
SklearnExports ==
    { "sklearn.svm.SVC", "sklearn.svm.SVR",
      "sklearn.linear_model.LogisticRegression",
      "sklearn.linear_model.RidgeClassifier",
      "sklearn.linear_model.RidgeClassifierCV",
      "sklearn.linear_model.LinearRegression",
      "sklearn.linear_model.Lasso", "sklearn.linear_model.LassoCV",
      "sklearn.linear_model.Ridge", "sklearn.linear_model.RidgeCV",
      "sklearn.ensemble.RandomForestClassifier",
      "sklearn.ensemble.RandomForestRegressor",
      "sklearn.decomposition.PCA", "sklearn.decomposition.FastICA",
      "sklearn.decomposition.NMF", "sklearn.decomposition.FactorAnalysis" }

\* '.'.join(import_string.split(".")[:-1]) for the import strings in use.
module_path(import_string) ==
    CASE import_string \in {"sklearn.svm.SVC", "sklearn.svm.SVR"}
           -> "sklearn.svm"
      [] import_string \in {"sklearn.ensemble.RandomForestClassifier",
                            "sklearn.ensemble.RandomForest"}
           -> "sklearn.ensemble"
      [] import_string \in {"sklearn.decomposition.PCA",
                            "sklearn.decomposition.FastICA",
                            "sklearn.decomposition.NMF",
                            "sklearn.decomposition.FactorAnalysis"}
           -> "sklearn.decomposition"
      [] OTHER -> "sklearn.linear_model"

SklearnModules ==
    {"sklearn.svm", "sklearn.linear_model", "sklearn.ensemble",
     "sklearn.decomposition"}

algs_classify ==
    [svm |-> "sklearn.svm.SVC",
     logistic |-> "sklearn.linear_model.LogisticRegression",
     ridgeClassifier |-> "sklearn.linear_model.RidgeClassifier",
     ridgeClassifierCV |-> "sklearn.linear_model.RidgeClassifierCV",
     randomforestClassifier |-> "sklearn.ensemble.RandomForestClassifier"]

algs_predict ==
    [svr |-> "sklearn.svm.SVR",
     linear |-> "sklearn.linear_model.LinearRegression",
     lasso |-> "sklearn.linear_model.Lasso",
     lassoCV |-> "sklearn.linear_model.LassoCV",
     ridge |-> "sklearn.linear_model.Ridge",
     ridgeCV |-> "sklearn.linear_model.RidgeCV",
     randomforest |-> "sklearn.ensemble.RandomForest"]

algs ==
    [pca |-> "sklearn.decomposition.PCA",
     ica |-> "sklearn.decomposition.FastICA",
     nnmf |-> "sklearn.decomposition.NMF",
     fa |-> "sklearn.decomposition.FactorAnalysis"]

\* algorithm in d.keys(): a class is hashable and equal to no key.
InKeys(algorithm, d) == algorithm.kind = "str" /\ algorithm.v \in DOMAIN d

IsStr(algorithm, name) == algorithm.kind = "str" /\ algorithm.v = name

\* load_class: import the module, then getattr(module, class_str), which
\* raises AttributeError for a name the module does not export.
load_class(import_string, imp) ==
    [exc |-> IF import_string \in SklearnExports THEN "none"
             ELSE "AttributeError",
     value |-> import_string,
     imported |-> imp \union {module_path(import_string)}]

\* predictor_settings for a table entry: the class is loaded, then
\* instantiated.
Dispatch(algorithm, prediction_type, import_string, imp) ==
    LET alg == load_class(import_string, imp)
    IN  IF alg.exc # "none"
        THEN [exc |-> alg.exc, value |-> <<>>, imported |-> alg.imported]
        ELSE [exc |-> "none",
              value |-> [algorithm |-> algorithm,
                         prediction_type |-> prediction_type,
                         predictor |-> <<alg.value>>],
              imported |-> alg.imported]

\* The two pipelines built in place ('lassopcr', 'pcr').
PipelineSettings(algorithm, final, imp) ==
    [exc |-> "none",
     value |-> [algorithm |-> algorithm,
                prediction_type |-> "prediction",
                predictor |-> <<"sklearn.decomposition.PCA", final>>],
     imported |-> imp \union {"sklearn.linear_model", "sklearn.decomposition"}]

\* The else branches as they would be without the raise: the call falls
\* through to the return.
InvalidAlgorithmNotRaised(algorithm, imp) ==
    [exc |-> "none", value |-> [algorithm |-> algorithm], imported |-> imp]

\* The else branches: raise ValueError, nothing imported or constructed.
InvalidAlgorithm(algorithm, imp) ==
    [exc |-> "ValueError", value |-> <<>>, imported |-> imp]

set_algorithm(algorithm, imp) ==
    IF InKeys(algorithm, algs_classify)
    THEN Dispatch(algorithm, "classification", algs_classify[algorithm.v], imp)
    ELSE IF InKeys(algorithm, algs_predict)
    THEN Dispatch(algorithm, "prediction", algs_predict[algorithm.v], imp)
    ELSE IF IsStr(algorithm, "lassopcr")
    THEN PipelineSettings(algorithm, "sklearn.linear_model.Lasso", imp)
    ELSE IF IsStr(algorithm, "pcr")
    THEN PipelineSettings(algorithm, "sklearn.linear_model.LinearRegression", imp)
    ELSE InvalidAlgorithm(algorithm, imp)

set_decomposition_algorithm(algorithm, n_components, imp) ==
    IF InKeys(algorithm, algs)
    THEN LET alg == load_class(algs[algorithm.v], imp)
         IN  [exc |-> alg.exc,
              value |-> <<alg.value, n_components>>,
              imported |-> alg.imported]
    ELSE InvalidAlgorithm(algorithm, imp)

(***************************************************************************)
(* attempt_to_import, all_same and concatenate.                            *)
(***************************************************************************)
\* module_names[name] = Dependency(dependency, mod): the dictionary is the
\* set of its <<name, dependency, mod>> items, with mod FALSE for the None
\* of a failed import.
attempt_to_import(names, dependency, name, found) ==
    {e \in names : e[1] # name} \union {<<name, dependency, found>>}

\* (x == items[0] for x in items): a generator object; building it
\* evaluates none of the comparisons.
Generator(items) ==
    [kind |-> "generator",
     items |-> [i \in 1..Len(items) |-> items[i] = items[1]]]

\* bool(np.all(a)): a generator is no sequence to numpy, which wraps it in
\* a 0-d object array whose reduction is the generator object itself, and
\* an object is true.
np_all(a) ==
    IF a.kind = "generator" THEN TRUE
    ELSE \A i \in 1..Len(a.items) : a.items[i]

all_same(items) == np_all(Generator(items))

\* out.append(i) of Brain_Data / Adjacency: i is added after the elements
\* already held.
append(out, i) == [type |-> out.type, items |-> Append(out.items, i)]

RECURSIVE AppendAll(_, _)
AppendAll(out, data) ==
    IF data = <<>> THEN out ELSE AppendAll(append(out, Head(data)), Tail(data))

\* all([type(x) for x in data]): a type object is true.
TypesTruthy(data) == \A i \in 1..Len(data) : data[i].type # ""

concatenate(data) ==
    IF data.kind # "list"
    THEN [exc |-> "ValueError",
          msg |-> "Make sure you are passing a list of objects.",
          value |-> <<>>]
    ELSE IF TypesTruthy(data.items)
    THEN IF data.items = <<>>
         THEN [exc |-> "IndexError", msg |-> "list index out of range",
               value |-> <<>>]
         ELSE [exc |-> "none", msg |-> "",
               value |-> AppendAll([type |-> data.items[1].type, items |-> <<>>],
                                   data.items)]
    ELSE [exc |-> "ValueError",
          msg |-> "Make sure all objects in the list are the same type.",
          value |-> <<>>]

(***************************************************************************)
(* The calls the model makes.                                              *)
(***************************************************************************)
MaxTr == 4
MaxOversampling == 2
MaxTimeLength == 2
MaxOnset == 2
MaxComponents == 2
MaxLen == 3
MaxDeps == 1

\* tr in half seconds, from -0.5 s; time_length in steps of 4 s; onset in
\* seconds, from -1 s.
TrSet == {(k * FP) \div 2 : k \in -1..MaxTr}
OversamplingSet == 1..MaxOversampling
TimeLengthSet == {4 * k * FP : k \in 1..MaxTimeLength}
OnsetSet == {k * FP : k \in -1..MaxOnset}

PublicHrf ==
    {"spm_hrf", "glover_hrf", "spm_time_derivative", "glover_time_derivative",
     "spm_dispersion_derivative"}

HrfCalls ==
    [fn : PublicHrf, tr : TrSet, oversampling : OversamplingSet,
     time_length : TimeLengthSet, onset : OnsetSet]

GammaCalls ==
    [fn : {"gamma_difference_hrf"}, tr : TrSet, oversampling : OversamplingSet,
     time_length : TimeLengthSet, onset : {0},
     delay : {-6 * FP, 0, 6 * FP}, undershoot : {0, 16 * FP},
     dispersion : {-FP, 0, FP}, u_dispersion : {0, FP}, ratio : {1670}]

AlgorithmArgs ==
    {Str(n) : n \in DOMAIN algs_classify \union DOMAIN algs_predict
                    \union DOMAIN algs
                    \union {"lassopcr", "pcr", "SVM", "knn", ""}}
    \union {[kind |-> "class", v |-> c] :
              c \in {"sklearn.svm.SVC", "sklearn.decomposition.PCA"}}

AlgCalls == [fn : {"set_algorithm"}, algorithm : AlgorithmArgs]

DecompCalls ==
    [fn : {"set_decomposition_algorithm"}, algorithm : AlgorithmArgs,
     n_components : 0..MaxComponents]

SeqsUpTo(S, n) == UNION {[1..k -> S] : k \in 0..n}

AllSameCalls == [fn : {"all_same"}, items : SeqsUpTo(1..2, MaxLen)]

Objects == [type : {"Brain_Data", "Adjacency"}, id : 1..2]

ConcatCalls ==
    [fn : {"concatenate"},
     data : [kind : {"list", "tuple"}, items : SeqsUpTo(Objects, MaxLen)]]

Calls ==
    HrfCalls \union GammaCalls \union AlgCalls \union DecompCalls
    \union AllSameCalls \union ConcatCalls

NoRet == [exc |-> "unset"]

(***************************************************************************)
(* Spec: one call of one function.  Init draws the call (and, for the      *)
(* dispatchers, the modules already in sys.modules); the function's        *)
(* action runs it to its return or its exception.                          *)
(***************************************************************************)
Init ==
    /\ pc = "called"
    /\ call \in Calls
    /\ ret = NoRet
    /\ prev = NoRet
    /\ module_names = {}
    /\ imported \in IF call.fn \in {"set_algorithm", "set_decomposition_algorithm"}
                    THEN SUBSET SklearnModules ELSE {{}}

Finish(fn, r) ==
    /\ pc = "called"
    /\ call.fn = fn
    /\ pc' = "done"
    /\ ret' = r
    /\ prev' = ret
    /\ UNCHANGED <<call, module_names>>

Call_gamma_difference_hrf ==
    /\ Finish("gamma_difference_hrf",
              gamma_difference_hrf(call.tr, call.oversampling, call.time_length,
                                   call.onset, call.delay, call.undershoot,
                                   call.dispersion, call.u_dispersion,
                                   call.ratio))
    /\ UNCHANGED imported

Call_spm_hrf ==
    /\ Finish("spm_hrf",
              spm_hrf(call.tr, call.oversampling, call.time_length, call.onset))
    /\ UNCHANGED imported

Call_glover_hrf ==
    /\ Finish("glover_hrf",
              glover_hrf(call.tr, call.oversampling, call.time_length,
                         call.onset))
    /\ UNCHANGED imported

Call_spm_time_derivative ==
    /\ Finish("spm_time_derivative",
              spm_time_derivative(call.tr, call.oversampling, call.time_length,
                                  call.onset))
    /\ UNCHANGED imported

Call_glover_time_derivative ==
    /\ Finish("glover_time_derivative",
              glover_time_derivative(call.tr, call.oversampling,
                                     call.time_length, call.onset))
    /\ UNCHANGED imported

Call_spm_dispersion_derivative ==
    /\ Finish("spm_dispersion_derivative",
              spm_dispersion_derivative(call.tr, call.oversampling,
                                        call.time_length, call.onset))
    /\ UNCHANGED imported

Call_set_algorithm ==
    LET r == set_algorithm(call.algorithm, imported)
    IN  /\ Finish("set_algorithm", [exc |-> r.exc, value |-> r.value])
        /\ imported' = r.imported

Call_set_decomposition_algorithm ==
    LET r == set_decomposition_algorithm(call.algorithm, call.n_components,
                                         imported)
    IN  /\ Finish("set_decomposition_algorithm",
                  [exc |-> r.exc, value |-> r.value])
        /\ imported' = r.imported

Call_all_same ==
    /\ Finish("all_same", [exc |-> "none", value |-> all_same(call.items)])
    /\ UNCHANGED imported

Call_concatenate ==
    /\ Finish("concatenate", concatenate(call.data))
    /\ UNCHANGED imported

HrfNext ==
    \/ Call_gamma_difference_hrf
    \/ Call_spm_hrf
    \/ Call_glover_hrf
    \/ Call_spm_time_derivative
    \/ Call_glover_time_derivative
    \/ Call_spm_dispersion_derivative

Next ==
    \/ HrfNext
    \/ Call_set_algorithm
    \/ Call_set_decomposition_algorithm
    \/ Call_all_same
    \/ Call_concatenate

Spec == Init /\ [][Next]_vars

(***************************************************************************)
(* SpecPure: the same HRF call made again and again, with calls of         *)
(* attempt_to_import (which writes module_names) in between.               *)
(***************************************************************************)
PureCalls ==
    {c \in HrfCalls : c.tr > 0 /\ c.onset = 0 /\ c.time_length = 4 * FP}

InitPure ==
    /\ pc = "called"
    /\ call \in PureCalls
    /\ ret = NoRet
    /\ prev = NoRet
    /\ module_names = {}
    /\ imported = {}

\* The caller makes the call it made before once more.
CallAgain ==
    /\ pc = "done"
    /\ pc' = "called"
    /\ UNCHANGED <<call, ret, prev, module_names, imported>>

Call_attempt_to_import ==
    \E dependency \in 1..MaxDeps, name \in 1..MaxDeps, found \in BOOLEAN :
        /\ module_names' =
               attempt_to_import(module_names, dependency, name, found)
        /\ UNCHANGED <<pc, call, ret, prev, imported>>

NextPure ==
    \/ Call_spm_hrf
    \/ Call_glover_hrf
    \/ Call_spm_time_derivative
    \/ Call_glover_time_derivative
    \/ Call_spm_dispersion_derivative
    \/ CallAgain
    \/ Call_attempt_to_import

SpecPure == InitPure /\ [][NextPure]_vars

(***************************************************************************)
(* Properties.                                                             *)
(***************************************************************************)
Done(fns) == pc = "done" /\ call.fn \in fns

\* abs(sum(kernel) - 1.0) within the rounding of one unit per sample.
SumsToOne(h) == Abs(SeqSum(h) - FP) <= Len(h)

\* C1 as stated: for every tr > 0 and any onset, the kernel spm_hrf and
\* glover_hrf return sums to 1.0 within tolerance.
C1_SumsToOneAnyOnset ==
    Done({"spm_hrf", "glover_hrf"}) /\ call.tr > 0
        => ret.exc = "none" /\ ret.finite /\ SumsToOne(ret.hrf)

\* C1 amended: for every tr > 0 spm_hrf and glover_hrf return an array, and
\* the array sums to 1.0 within tolerance whenever it is not empty and its
\* samples are finite, that is, whenever the sum divided by was not zero.
C1_SumsToOneWhenFinite ==
    Done({"spm_hrf", "glover_hrf"}) /\ call.tr > 0
        => /\ ret.exc = "none"
           /\ (ret.finite /\ ret.hrf # <<>> => SumsToOne(ret.hrf))

C1_Witness ==
    /\ Done({"glover_hrf"})
    /\ call.tr > 0
    /\ call.onset # 0
    /\ ret.finite
    /\ Len(ret.hrf) >= 4
    /\ \E i \in 1..Len(ret.hrf) : ret.hrf[i] # 0 /\ ret.hrf[i] # FP
    /\ SumsToOne(ret.hrf)

NonzeroDispersions ==
    call.fn = "gamma_difference_hrf"
        => call.dispersion # 0 /\ call.u_dispersion # 0

\* round(a / b) for a >= 0, b > 0.
RoundDiv(a, b) == (2 * a + b) \div (2 * b)

\* C3 as stated: the kernel has exactly round(time_length / dt) samples.
C3_LengthIsRounded ==
    Done({"gamma_difference_hrf", "spm_hrf", "glover_hrf"}) /\ call.tr > 0
      /\ ret.exc = "none"
        => Len(ret.hrf) =
             RoundDiv(call.time_length, Div(call.tr, call.oversampling * FP))

\* C3 amended: the kernel has exactly int(time_length / dt) samples, the
\* quotient truncated: n dt <= time_length < (n + 1) dt.
C3_LengthIsTruncated ==
    Done({"gamma_difference_hrf", "spm_hrf", "glover_hrf"}) /\ call.tr > 0
      /\ NonzeroDispersions
        => LET dt == Div(call.tr, call.oversampling * FP)
               n  == Len(ret.hrf)
           IN  /\ ret.exc = "none"
               /\ n * dt <= call.time_length
               /\ call.time_length < (n + 1) * dt

C3_Witness ==
    /\ Done({"spm_hrf", "glover_hrf"})
    /\ call.tr > 0
    /\ ret.exc = "none"
    /\ LET dt == Div(call.tr, call.oversampling * FP)
           n  == Len(ret.hrf)
       IN  /\ n >= 2
           /\ n * dt < call.time_length
           /\ 2 * (call.time_length - n * dt) > dt

BadShape(d, disp) == disp = 0 \/ d * disp <= 0

\* C5 as stated: tr <= 0 or a non-positive shape (delay / dispersion,
\* undershoot / u_dispersion) ends in an exception; no kernel is returned.
C5_InvalidInputRaises ==
    Done({"gamma_difference_hrf"})
      /\ \/ call.tr <= 0
         \/ BadShape(call.delay, call.dispersion)
         \/ BadShape(call.undershoot, call.u_dispersion)
        => ret.exc # "none"

\* C5 amended: tr = 0 ends in ZeroDivisionError; tr < 0 with
\* time_length >= |dt| ends in the ValueError of the grid construction; for
\* tr > 0 a dispersion of 0 ends in ZeroDivisionError; none is caught.  For
\* tr > 0 and dispersions other than 0, a shape that is not positive raises
\* nothing: an array of the usual length is returned, all nan when it is
\* not empty.
C5_InvalidInputOutcome ==
    Done({"gamma_difference_hrf"})
        => LET dt == Div(call.tr, call.oversampling * FP)
           IN  /\ call.tr = 0 => ret.exc = "ZeroDivisionError"
               /\ call.tr < 0 /\ call.time_length >= -dt
                    => ret.exc = "ValueError"
               /\ call.tr > 0 /\ ~NonzeroDispersions
                    => ret.exc = "ZeroDivisionError"
               /\ call.tr > 0 /\ NonzeroDispersions
                  /\ \/ BadShape(call.delay, call.dispersion)
                     \/ BadShape(call.undershoot, call.u_dispersion)
                    => /\ ret.exc = "none"
                       /\ Len(ret.hrf) = GridLen(call.time_length, dt)
                       /\ ret.hrf # <<>> => ~ret.finite

C5_Witness ==
    /\ Done({"gamma_difference_hrf"})
    /\ call.tr > 0
    /\ call.delay < 0
    /\ call.dispersion > 0
    /\ call.undershoot > 0
    /\ call.u_dispersion > 0
    /\ ret.exc = "none"
    /\ Len(ret.hrf) >= 2
    /\ ~ret.finite

Documented ==
    {"svm", "svr", "linear", "logistic", "lasso", "lassopcr", "lassoCV",
     "ridge", "ridgeCV", "ridgeClassifier", "randomforest",
     "randomforestClassifier"}

\* C6: for every algorithm name the docstring and the error message list,
\* set_algorithm returns settings with that algorithm, a constructed
\* predictor, and prediction_type 'classification' for svm, logistic,
\* ridgeClassifier and randomforestClassifier, 'prediction' for the others.
C6_DocumentedNamesReturnSettings ==
    Done({"set_algorithm"}) /\ call.algorithm.kind = "str"
      /\ call.algorithm.v \in Documented
        => /\ ret.exc = "none"
           /\ ret.value.algorithm = call.algorithm
           /\ ret.value.predictor # <<>>
           /\ ret.value.prediction_type =
                IF call.algorithm.v \in {"svm", "logistic", "ridgeClassifier",
                                         "randomforestClassifier"}
                THEN "classification" ELSE "prediction"

Dispatched ==
    {"svm", "logistic", "ridgeClassifier", "ridgeClassifierCV",
     "randomforestClassifier", "svr", "linear", "lasso", "lassoCV", "ridge",
     "ridgeCV", "randomforest", "lassopcr", "pcr"}

\* The call's argument is none of the given names.
NotNamed(names) ==
    ~(call.algorithm.kind = "str" /\ call.algorithm.v \in names)

C8_ConcatenateChecksTypes ==
    Done({"concatenate"})
        => LET data == call.data
               same == \A i \in 1..Len(data.items) :
                          data.items[i].type = data.items[1].type
           IN  /\ data.kind # "list" => ret.exc = "ValueError"
               /\ data.kind = "list" /\ ~same
                    => /\ ret.exc = "ValueError"
                       /\ ret.msg = "Make sure all objects in the list are the same type."
               /\ ret.exc = "none"
                    => /\ data.kind = "list" /\ data.items # <<>> /\ same
                       /\ ret.value = [type |-> data.items[1].type,
                                       items |-> data.items]

\* C9: all_same(items) is true exactly when every element of a non-empty
\* items equals items[0].
C9_AllSameComparesWithFirst ==
    Done({"all_same"}) /\ call.items # <<>>
        => (ret.value <=> \A i \in 1..Len(call.items) :
                              call.items[i] = call.items[1])

====
